---- MODULE Spec2Model ----
(***************************************************************************)
(* Model of the cryptocurrency-advanced service: wallets with a spendable  *)
(* balance and a retained (escrowed) amount, and the four transactions     *)
(* CreateWallet, Issue, Transfer and Approve of src/src/transactions.rs.   *)
(* Every transaction is executed against a fork of the committed ledger;   *)
(* the fork is committed when execute returns Ok and discarded otherwise.  *)
(***************************************************************************)
EXTENDS Integers, Sequences, FiniteSets, TLC

(***************************************************************************)
(* Bounds of the model and the input domains.                              *)
(***************************************************************************)
\* Number of transactions executed in one run; also the size of the hash space.
MaxTx == 5

\* The number of transactions that wait in the pool at one time is bounded.
MaxPool == 2

\* Number of transactions that the two instances of SpecReplay execute.
MaxReplay == 4

Keys == {"alice", "bob", "carol"}
Names == {"Alice"}
Seeds == {0, 1}
Hashes == 1 .. MaxTx

\* src/src/lib.rs:26
INITIAL_BALANCE == 100

\* Sampled u64 amounts: zero, the amount of the tests and the full initial
\* balance.
Amounts == {0, 1, INITIAL_BALANCE}

(***************************************************************************)
(* Error codes, src/src/transactions.rs:10-49.                             *)
(***************************************************************************)
ERROR_SENDER_SAME_AS_RECEIVER == 0
ERROR_WRONG_SENDER == 1
ERROR_APPROVER_SAME_AS_SENDER == 2
ERROR_APPROVER_SAME_AS_RECEIVER == 3
ERROR_WRONG_APPROVER == 4

\* enum Error, #[repr(u8)]: the discriminant of each variant.
Error_code(e) ==
    CASE e = "WalletAlreadyExists" -> 0
      [] e = "SenderNotFound" -> 1
      [] e = "ReceiverNotFound" -> 2
      [] e = "InsufficientCurrencyAmount" -> 3
      [] e = "TransferNotFound" -> 4

\* #[fail(display = ...)] of each variant.
Error_display(e) ==
    CASE e = "WalletAlreadyExists" -> "Wallet already exists"
      [] e = "SenderNotFound" -> "Sender doesn't exist"
      [] e = "ReceiverNotFound" -> "Receiver doesn't exist"
      [] e = "InsufficientCurrencyAmount" -> "Insufficient currency amount"
      [] e = "TransferNotFound" -> "Transfer doesn't exist"

\* The description of an ExecutionError built without one.
NoDescription == "<none>"

\* ExecutionResult: Ok(()).
Ok == [type |-> "success", code |-> -1, description |-> NoDescription]

\* ExecutionError::new(code): a bare code, no description.
ExecutionError_new(code) ==
    [type |-> "error", code |-> code, description |-> NoDescription]

\* impl From<Error> for ExecutionError: the discriminant and the display text.
ExecutionError_from(e) ==
    [type |-> "error", code |-> Error_code(e), description |-> Error_display(e)]

(***************************************************************************)
(* Wallet, src/src/wallet.rs.                                              *)
(***************************************************************************)
Wallet_new(pub_key, name, balance, retained_amount, history_len, history_hash) ==
    [pub_key |-> pub_key, name |-> name, balance |-> balance,
     retained_amount |-> retained_amount, history_len |-> history_len,
     history_hash |-> history_hash]

\* Mutant: the retained amount is reset when the balance is set.
Wallet_set_balance_resets_retained(self, balance, history_hash) ==
    Wallet_new(self.pub_key, self.name, balance, 0,
               self.history_len + 1, history_hash)

\* Mutant: the new balance is dropped, the wallet keeps its old one.
Wallet_set_balance_stale(self, balance, history_hash) ==
    Wallet_new(self.pub_key, self.name, self.balance, self.retained_amount,
               self.history_len + 1, history_hash)

Wallet_set_balance(self, balance, history_hash) ==
    Wallet_new(self.pub_key, self.name, balance, self.retained_amount,
               self.history_len + 1, history_hash)

\* Mutant: a release gives up everything the wallet retains.
Wallet_set_retained_amount_cleared(self, amount, history_hash) ==
    Wallet_new(self.pub_key, self.name, self.balance, 0,
               self.history_len + 1, history_hash)

\* Mutant: the amount is written to balance instead of retained_amount.
Wallet_set_retained_amount_wrong_field(self, amount, history_hash) ==
    Wallet_new(self.pub_key, self.name, amount, self.retained_amount,
               self.history_len + 1, history_hash)

Wallet_set_retained_amount(self, amount, history_hash) ==
    Wallet_new(self.pub_key, self.name, self.balance, amount,
               self.history_len + 1, history_hash)

\* Mutant: the balance is lowered but the amount is not added to the hold.
Wallet_set_balance_and_retained_amount_drops_hold(self, balance, retained_amount, history_hash) ==
    Wallet_new(self.pub_key, self.name, balance, self.retained_amount,
               self.history_len + 1, history_hash)

\* Mutant: the hold counts as two mutations, one per field.
Wallet_set_balance_and_retained_amount_twice(self, balance, retained_amount, history_hash) ==
    Wallet_new(self.pub_key, self.name, balance, retained_amount,
               self.history_len + 2, history_hash)

\* Mutant: balance and retained_amount are passed in the wrong order.
Wallet_set_balance_and_retained_amount_swapped(self, balance, retained_amount, history_hash) ==
    Wallet_new(self.pub_key, self.name, retained_amount, balance,
               self.history_len + 1, history_hash)

Wallet_set_balance_and_retained_amount(self, balance, retained_amount, history_hash) ==
    Wallet_new(self.pub_key, self.name, balance, retained_amount,
               self.history_len + 1, history_hash)

(***************************************************************************)
(* The storage and the schema.  A fork holds the three indexes of the      *)
(* schema: wallets by public key, pending transfers by the hash of their   *)
(* Transfer transaction, and the history (transaction hashes) of each      *)
(* wallet.  A map index is a function whose domain is its set of keys.     *)
(***************************************************************************)
MapIndex_put(index, key, value) ==
    [k \in DOMAIN index \cup {key} |-> IF k = key THEN value ELSE index[k]]

MapIndex_remove(index, key) ==
    [k \in DOMAIN index \ {key} |-> index[k]]

EmptyIndex == [k \in {} |-> 0]

\* The root of a history list: a digest that tells any two lists of
\* transaction hashes apart (the hashes are 1 .. MaxTx, read as digits).
RECURSIVE merkle_root(_)
merkle_root(history) ==
    IF history = <<>> THEN 0
    ELSE merkle_root(SubSeq(history, 1, Len(history) - 1)) * (MaxTx + 1)
         + history[Len(history)]

EmptyFork ==
    [wallets |-> EmptyIndex, transfers |-> EmptyIndex,
     wallet_history |-> [k \in Keys |-> <<>>]]

\* Schema::wallet(key).is_some() / Schema::transfer(hash).is_some()
Schema_has_wallet(fork, key) == key \in DOMAIN fork.wallets
Schema_has_transfer(fork, hash) == hash \in DOMAIN fork.transfers

\* Schema::create_wallet
Schema_create_wallet(fork, key, name, transaction) ==
    LET history == Append(fork.wallet_history[key], transaction)
        wallet == Wallet_new(key, name, INITIAL_BALANCE, 0, Len(history),
                             merkle_root(history))
    IN [fork EXCEPT !.wallet_history[key] = history,
                    !.wallets = MapIndex_put(@, key, wallet)]

\* Schema::increase_wallet_balance
Schema_increase_wallet_balance(fork, wallet, amount, transaction) ==
    LET history == Append(fork.wallet_history[wallet.pub_key], transaction)
        updated == Wallet_set_balance(wallet, wallet.balance + amount,
                                      merkle_root(history))
    IN [fork EXCEPT !.wallet_history[wallet.pub_key] = history,
                    !.wallets = MapIndex_put(@, wallet.pub_key, updated)]

\* Schema::decrease_retained_amount: releases the hold and removes the
\* pending transfer.
Schema_decrease_retained_amount(fork, wallet, amount, transaction, transfer_tx_hash) ==
    LET history == Append(fork.wallet_history[wallet.pub_key], transaction)
        updated == Wallet_set_retained_amount(wallet, wallet.retained_amount - amount,
                                              merkle_root(history))
    IN [fork EXCEPT !.wallet_history[wallet.pub_key] = history,
                    !.wallets = MapIndex_put(@, wallet.pub_key, updated),
                    !.transfers = MapIndex_remove(@, transfer_tx_hash)]

\* Schema::retain_amount_from_wallet_balance: moves amount from balance to
\* retained_amount in one wallet update and records the pending transfer.
Schema_retain_amount_from_wallet_balance(fork, wallet, amount, transaction, transfer) ==
    LET history == Append(fork.wallet_history[wallet.pub_key], transaction)
        updated == Wallet_set_balance_and_retained_amount(
                       wallet, wallet.balance - amount,
                       wallet.retained_amount + amount, merkle_root(history))
    IN [fork EXCEPT !.wallet_history[wallet.pub_key] = history,
                    !.wallets = MapIndex_put(@, wallet.pub_key, updated),
                    !.transfers = MapIndex_put(@, transaction, transfer)]

(***************************************************************************)
(* The state hash.  A snapshot is what the storage of one instance holds:  *)
(* each index is a sequence of serialized entries in the order in which    *)
(* that storage keeps them, an order that is its own affair and may differ *)
(* from one instance to the next.  The digest of a map index is computed   *)
(* from its entries in the order of their keys; a hash is a number below   *)
(* HashModulus, so that different contents may collide and the equality of *)
(* two hashes is weaker than the equality of the contents.                 *)
(***************************************************************************)
\* The hashes of the model are the numbers 0 .. HashModulus - 1.
HashModulus == 65521

\* The hash of a sequence of words, continued from the hash acc.
RECURSIVE Hash_fold(_, _)
Hash_fold(acc, words) ==
    IF words = <<>> THEN acc
    ELSE Hash_fold((acc * 31 + Head(words) + 1) % HashModulus, Tail(words))

\* The serialized forms of the keys and of the values of the three indexes.
PublicKey_to_bytes(key) ==
    CASE key = "alice" -> 1
      [] key = "bob" -> 2
      [] key = "carol" -> 3

String_to_bytes(name) == IF name = "Alice" THEN 1 ELSE 2

Hash_to_bytes(hash) == hash

Wallet_to_bytes(wallet) ==
    <<PublicKey_to_bytes(wallet.pub_key), String_to_bytes(wallet.name),
      wallet.balance, wallet.retained_amount, wallet.history_len,
      wallet.history_hash>>

Transfer_to_bytes(transfer) ==
    <<PublicKey_to_bytes(transfer.from), PublicKey_to_bytes(transfer.to),
      PublicKey_to_bytes(transfer.approver), transfer.amount, transfer.seed>>

History_to_bytes(history) == <<merkle_root(history)>>

\* The orders in which a storage may keep the entries of the given keys.
RECURSIVE Orders(_)
Orders(keys) ==
    IF keys = {} THEN {<<>>}
    ELSE UNION {{<<key>> \o order : order \in Orders(keys \ {key})} : key \in keys}

\* The serialized entries of a map index, by key.
Serialized_wallets(index) ==
    [key \in DOMAIN index |->
        [key |-> PublicKey_to_bytes(key), value |-> Wallet_to_bytes(index[key])]]

Serialized_transfers(index) ==
    [hash \in DOMAIN index |->
        [key |-> Hash_to_bytes(hash), value |-> Transfer_to_bytes(index[hash])]]

Serialized_wallet_history(index) ==
    [key \in DOMAIN index |->
        [key |-> PublicKey_to_bytes(key), value |-> History_to_bytes(index[key])]]

\* A map index as a storage holds it: its serialized entries in that order.
Stored(entries, order) == [i \in 1 .. Len(order) |-> entries[order[i]]]

\* The layout of a storage that holds nothing.
EmptyLayout == [wallets |-> <<>>, transfers |-> <<>>]

\* The layouts of the storage of an instance that holds the given ledger:
\* an order of the wallets (their histories are kept with them) and an order
\* of the pending transfers.
Layouts(fork) ==
    [wallets : Orders(DOMAIN fork.wallets), transfers : Orders(DOMAIN fork.transfers)]

\* The snapshot of a ledger held in the given layout.
Snapshot(fork, layout) ==
    [wallets |-> Stored(Serialized_wallets(fork.wallets), layout.wallets),
     transfers |-> Stored(Serialized_transfers(fork.transfers), layout.transfers),
     wallet_history |-> Stored(Serialized_wallet_history(fork.wallet_history),
                               layout.wallets)]

\* The hash of the given entries taken in the order of their keys.
RECURSIVE Hash_in_key_order(_, _)
Hash_in_key_order(acc, entries) ==
    IF entries = {} THEN acc
    ELSE LET first == CHOOSE e \in entries : \A f \in entries : e.key <= f.key
         IN Hash_in_key_order(Hash_fold(acc, <<first.key>> \o first.value),
                              entries \ {first})

\* The digest of a stored map index: computed from its entries alone,
\* whatever the order in which the storage keeps them.
MapIndex_digest(stored) ==
    Hash_in_key_order(Cardinality(DOMAIN stored), {stored[i] : i \in DOMAIN stored})

\* The hash of the entries of a stored index in the order of the storage.
RECURSIVE Hash_in_storage_order(_, _)
Hash_in_storage_order(acc, stored) ==
    IF stored = <<>> THEN acc
    ELSE Hash_in_storage_order(
             Hash_fold(acc, <<Head(stored).key>> \o Head(stored).value),
             Tail(stored))

\* Schema::state_hash: one digest per index (wallets, pending transfers,
\* wallet histories), in this fixed order.
Schema_state_hash(view) ==
    <<MapIndex_digest(view.wallets), MapIndex_digest(view.transfers),
      MapIndex_digest(view.wallet_history)>>

\* Mutant: the service hashes the entries of the view itself, as the
\* storage keeps them, instead of asking the schema for its digests.
Service_state_hash_in_storage_order(view) ==
    <<Hash_in_storage_order(Len(view.wallets), view.wallets),
      Hash_in_storage_order(Len(view.transfers), view.transfers),
      Hash_in_storage_order(Len(view.wallet_history), view.wallet_history)>>

\* Service::state_hash, src/src/lib.rs:42-45.
Service_state_hash(view) == Schema_state_hash(view)

(***************************************************************************)
(* The transactions, src/src/transactions.rs.  execute takes the fork, the *)
(* author and the hash of the transaction (the TransactionContext) and the *)
(* payload; it returns the ExecutionResult and the fork as it leaves it.   *)
(***************************************************************************)
Return(status, fork) == [status |-> status, fork |-> fork]

\* Mutant: from is never compared with to.
Transfer_check_parties_no_self_check(from, self) ==
    LET to == self.to
        approver == self.approver
    IN IF from # self.from
         THEN ExecutionError_new(ERROR_WRONG_SENDER)
       ELSE IF approver = from
         THEN ExecutionError_new(ERROR_APPROVER_SAME_AS_SENDER)
       ELSE IF approver = to
         THEN ExecutionError_new(ERROR_APPROVER_SAME_AS_RECEIVER)
       ELSE Ok

\* Mutant: from = to is tested before the author is compared with from.
Transfer_check_parties_reordered(from, self) ==
    LET to == self.to
        approver == self.approver
    IN IF from = to
         THEN ExecutionError_new(ERROR_SENDER_SAME_AS_RECEIVER)
       ELSE IF from # self.from
         THEN ExecutionError_new(ERROR_WRONG_SENDER)
       ELSE IF approver = from
         THEN ExecutionError_new(ERROR_APPROVER_SAME_AS_SENDER)
       ELSE IF approver = to
         THEN ExecutionError_new(ERROR_APPROVER_SAME_AS_RECEIVER)
       ELSE Ok

\* Transfer::execute, the checks on the parties (no storage read): the
\* first one that fails decides the error; Ok when all pass.
Transfer_check_parties(from, self) ==
    LET to == self.to
        approver == self.approver
    IN IF from # self.from
         THEN ExecutionError_new(ERROR_WRONG_SENDER)
       ELSE IF from = to
         THEN ExecutionError_new(ERROR_SENDER_SAME_AS_RECEIVER)
       ELSE IF approver = from
         THEN ExecutionError_new(ERROR_APPROVER_SAME_AS_SENDER)
       ELSE IF approver = to
         THEN ExecutionError_new(ERROR_APPROVER_SAME_AS_RECEIVER)
       ELSE Ok

\* Mutant: the funds already retained count as spendable.
Transfer_insufficient_counts_retained(sender, amount) ==
    sender.balance + sender.retained_amount < amount

\* Mutant: the balance check is missing.
Transfer_insufficient_unchecked(sender, amount) == FALSE

\* Mutant: a sender with an empty balance cannot transfer at all.
Transfer_insufficient_empty_balance(sender, amount) ==
    sender.balance < amount \/ sender.balance = 0

\* Transfer::execute: sender.balance < amount
Transfer_insufficient(sender, amount) == sender.balance < amount

\* impl Transaction for Transfer
Transfer_execute(fork, author, hash, self) ==
    LET from == author
        to == self.to
        amount == self.amount
        parties == Transfer_check_parties(from, self)
    IN IF parties # Ok
         THEN Return(parties, fork)
       ELSE IF ~Schema_has_wallet(fork, from)
         THEN Return(ExecutionError_from("SenderNotFound"), fork)
       ELSE IF ~Schema_has_wallet(fork, to)
         THEN Return(ExecutionError_from("ReceiverNotFound"), fork)
       ELSE IF Transfer_insufficient(fork.wallets[from], amount)
         THEN Return(ExecutionError_from("InsufficientCurrencyAmount"), fork)
       ELSE Return(Ok, Schema_retain_amount_from_wallet_balance(
                           fork, fork.wallets[from], amount, hash, self))

\* Mutant: the author of the Approve is not compared with the approver.
Approve_wrong_approver_unchecked(approver, transfer) == FALSE

\* Mutant: the sender of the transfer may approve it as well.
Approve_wrong_approver_but_sender(approver, transfer) ==
    approver # transfer.approver /\ approver # transfer.from

\* Approve::execute: approver != &transfer.approver
Approve_wrong_approver(approver, transfer) == approver # transfer.approver

\* Mutant: the release needs more retained than the amount of the transfer.
Approve_insufficient_strict(sender, amount) == sender.retained_amount <= amount

\* Approve::execute: sender.retained_amount < amount
Approve_insufficient(sender, amount) == sender.retained_amount < amount

\* Mutant: the approval also opens a wallet for an approver that has none.
Approve_move_funds_opens_wallet(fork, sender, receiver, amount, hash, transfer_tx_hash) ==
    LET approver == fork.transfers[transfer_tx_hash].approver
        moved == Schema_increase_wallet_balance(
                     Schema_decrease_retained_amount(fork, sender, amount, hash,
                                                     transfer_tx_hash),
                     receiver, amount, hash)
    IN IF Schema_has_wallet(moved, approver)
         THEN moved
         ELSE Schema_create_wallet(moved, approver, "Alice", hash)

\* Mutant: the receiver is credited but the hold is never released.
Approve_move_funds_no_release(fork, sender, receiver, amount, hash, transfer_tx_hash) ==
    Schema_increase_wallet_balance(fork, receiver, amount, hash)

\* Mutant: the hold is released but the receiver is never credited.
Approve_move_funds_no_credit(fork, sender, receiver, amount, hash, transfer_tx_hash) ==
    Schema_decrease_retained_amount(fork, sender, amount, hash, transfer_tx_hash)

\* Approve::execute, the two writes: sender and receiver are both read
\* before either is written.
Approve_move_funds(fork, sender, receiver, amount, hash, transfer_tx_hash) ==
    Schema_increase_wallet_balance(
        Schema_decrease_retained_amount(fork, sender, amount, hash, transfer_tx_hash),
        receiver, amount, hash)

\* impl Transaction for Approve
Approve_execute(fork, author, hash, self) ==
    LET approver == author
        transfer_tx_hash == self.transfer_tx_hash
    IN IF ~Schema_has_transfer(fork, transfer_tx_hash)
         THEN Return(ExecutionError_from("TransferNotFound"), fork)
       ELSE
         LET transfer == fork.transfers[transfer_tx_hash]
             from == transfer.from
             to == transfer.to
             amount == transfer.amount
         IN IF Approve_wrong_approver(approver, transfer)
              THEN Return(ExecutionError_new(ERROR_WRONG_APPROVER), fork)
            ELSE IF ~Schema_has_wallet(fork, from)
              THEN Return(ExecutionError_from("SenderNotFound"), fork)
            ELSE IF ~Schema_has_wallet(fork, to)
              THEN Return(ExecutionError_from("ReceiverNotFound"), fork)
            ELSE IF Approve_insufficient(fork.wallets[from], amount)
              THEN Return(ExecutionError_from("InsufficientCurrencyAmount"), fork)
            ELSE Return(Ok, Approve_move_funds(fork, fork.wallets[from],
                                fork.wallets[to], amount, hash, transfer_tx_hash))

\* impl Transaction for Issue
Issue_execute(fork, author, hash, self) ==
    LET pub_key == author
    IN IF Schema_has_wallet(fork, pub_key)
         THEN Return(Ok, Schema_increase_wallet_balance(
                             fork, fork.wallets[pub_key], self.amount, hash))
       ELSE Return(ExecutionError_from("ReceiverNotFound"), fork)

\* Mutant: the wallet is created without looking for an existing one.
CreateWallet_execute_overwrite(fork, author, hash, self) ==
    Return(Ok, Schema_create_wallet(fork, author, self.name, hash))

\* Mutant: a CreateWallet for an existing wallet renames it.
CreateWallet_execute_renames(fork, author, hash, self) ==
    LET pub_key == author
    IN IF ~Schema_has_wallet(fork, pub_key)
         THEN Return(Ok, Schema_create_wallet(fork, pub_key, self.name, hash))
       ELSE Return(Ok, [fork EXCEPT !.wallets[pub_key].name = self.name])

\* impl Transaction for CreateWallet
CreateWallet_execute(fork, author, hash, self) ==
    LET pub_key == author
    IN IF ~Schema_has_wallet(fork, pub_key)
         THEN Return(Ok, Schema_create_wallet(fork, pub_key, self.name, hash))
       ELSE Return(ExecutionError_from("WalletAlreadyExists"), fork)

(***************************************************************************)
(* u64 at its full width (balance and amount, src/src/wallet.rs:13-16): a  *)
(* value is four 16-bit limbs, the most significant first.                 *)
(***************************************************************************)
Limb == 65536

U64_from(n) == <<0, 0, n \div Limb, n % Limb>>

U64_MAX == <<Limb - 1, Limb - 1, Limb - 1, Limb - 1>>

\* a < b
U64_lt(a, b) ==
    \E i \in 1 .. 4 : a[i] < b[i] /\ \A j \in 1 .. (i - 1) : a[j] = b[j]

\* The sum modulo 2^64 and whether the true sum exceeds u64::MAX.
U64_overflowing_add(a, b) ==
    LET s4 == a[4] + b[4]
        s3 == a[3] + b[3] + (s4 \div Limb)
        s2 == a[2] + b[2] + (s3 \div Limb)
        s1 == a[1] + b[1] + (s2 \div Limb)
    IN [value |-> <<s1 % Limb, s2 % Limb, s3 % Limb, s4 % Limb>>,
        overflow |-> s1 \div Limb > 0]

\* The outcomes of `balance + amount` on u64 in Rust: the sum when it fits;
\* when it does not, a panic in a build with overflow checks (the node
\* reports the transaction as panicked and discards the fork) and the sum
\* modulo 2^64 in a build without them.
U64_add(balance, amount) ==
    LET sum == U64_overflowing_add(balance, amount)
    IN IF sum.overflow
         THEN {[status |-> "panic", balance |-> balance],
               [status |-> "success", balance |-> sum.value]}
         ELSE {[status |-> "success", balance |-> sum.value]}

(***************************************************************************)
(* Transaction payloads.                                                   *)
(***************************************************************************)
TransferPayloads ==
    [from : Keys, to : Keys, approver : Keys, amount : Amounts, seed : Seeds]
ApprovePayloads ==
    [approver : Keys, transfer_tx_hash : Hashes, seed : Seeds]
IssuePayloads == [amount : Amounts, seed : Seeds]
CreateWalletPayloads == [name : Names]

(***************************************************************************)
(* The state: the committed ledger, the number of transactions executed so *)
(* far, the outcome recorded for the last one, and the set of transfer     *)
(* hashes that a successful Approve has consumed.  replica is a second,    *)
(* independent ledger instance with the outcome of its last transaction    *)
(* and the layout in which its storage holds the entries of its indexes;   *)
(* it is used by SpecReplay only and stays empty under Spec.  pool holds    *)
(* the transactions that were submitted and are not yet committed, by      *)
(* hash; it is used by SpecPool only and stays empty otherwise.  credit is  *)
(* one addition to a balance at the full width of u64, used by SpecU64     *)
(* only: the amounts of the other specifications are far below 2^64, where *)
(* the arithmetic of u64 is the arithmetic of the integers.  issued is the  *)
(* sum of the amounts of the Issue transactions that succeeded.            *)
(***************************************************************************)
VARIABLES wallets, transfers, wallet_history, tx_count, last, approved, replica,
          pool, credit, issued

vars ==
    <<wallets, transfers, wallet_history, tx_count, last, approved, replica, pool,
      credit, issued>>

ledger == <<wallets, transfers, wallet_history>>

\* The fork derived from the last committed snapshot.
Fork ==
    [wallets |-> wallets, transfers |-> transfers, wallet_history |-> wallet_history]

\* The hash of the next transaction: every transaction has its own hash.
NextHash == tx_count + 1

\* Another transaction can be executed within the bound.
CanExecute == tx_count < MaxTx

NoTx == [kind |-> "none", status |-> Ok, transfer_tx_hash |-> 0]

\* No addition at the width of u64 has been made.
NoCredit ==
    [kind |-> "none", balance |-> U64_from(INITIAL_BALANCE), amount |-> U64_from(0),
     status |-> "success", after |-> U64_from(INITIAL_BALANCE)]

Init ==
    /\ wallets = EmptyFork.wallets
    /\ transfers = EmptyFork.transfers
    /\ wallet_history = EmptyFork.wallet_history
    /\ tx_count = 0
    /\ last = NoTx
    /\ approved = {}
    /\ replica = [fork |-> EmptyFork, status |-> Ok, layout |-> EmptyLayout]
    /\ pool = EmptyIndex
    /\ credit = NoCredit
    /\ issued = 0

\* The ledger after a transaction: the fork is committed when execute
\* returns Ok and discarded when it returns an error.
Committed(fork, result) ==
    IF result.status = Ok THEN result.fork ELSE fork

\* The execution of one transaction and the record of its outcome.
Record(kind, result, transfer_tx_hash, amount) ==
    /\ CanExecute
    /\ LET snapshot == Committed(Fork, result)
       IN /\ wallets' = snapshot.wallets
          /\ transfers' = snapshot.transfers
          /\ wallet_history' = snapshot.wallet_history
    /\ tx_count' = tx_count + 1
    /\ last' = [kind |-> kind, status |-> result.status,
                transfer_tx_hash |-> transfer_tx_hash]
    /\ approved' = IF kind = "Approve" /\ result.status = Ok
                     THEN approved \cup {transfer_tx_hash}
                     ELSE approved
    /\ issued' = IF kind = "Issue" /\ result.status = Ok
                   THEN issued + amount
                   ELSE issued

\* One transaction executed by the ledger.
Apply(kind, result, transfer_tx_hash, amount) ==
    /\ Record(kind, result, transfer_tx_hash, amount)
    /\ UNCHANGED <<replica, pool, credit>>

\* The keys are interchangeable (the code only compares them), so the runs
\* create the wallets in one order: alice, then bob, then carol.
KeysBefore(key) ==
    CASE key = "alice" -> {}
      [] key = "bob" -> {"alice"}
      [] key = "carol" -> {"alice", "bob"}

CreateWallet(author, self) ==
    /\ KeysBefore(author) \subseteq DOMAIN wallets
    /\ Apply("CreateWallet", CreateWallet_execute(Fork, author, NextHash, self), 0, 0)

Issue(author, self) ==
    Apply("Issue", Issue_execute(Fork, author, NextHash, self), 0, self.amount)

Transfer(author, self) ==
    Apply("Transfer", Transfer_execute(Fork, author, NextHash, self), 0, 0)

Approve(author, self) ==
    Apply("Approve", Approve_execute(Fork, author, NextHash, self),
          self.transfer_tx_hash, 0)

Next ==
    \/ \E author \in Keys, self \in CreateWalletPayloads : CreateWallet(author, self)
    \/ \E author \in Keys, self \in IssuePayloads : Issue(author, self)
    \/ \E author \in Keys, self \in TransferPayloads : Transfer(author, self)
    \/ \E author \in Keys, self \in ApprovePayloads : Approve(author, self)

Spec == Init /\ [][Next]_vars

(***************************************************************************)
(* Two independent ledger instances that start empty and are given the     *)
(* same transactions (same author, hash and payload) in the same order:    *)
(* each executes on the fork of its own last committed snapshot.           *)
(***************************************************************************)
\* The same transaction executed by the ledger and by the replica.  A
\* transaction that fails leaves the storage of the replica as it is; one
\* that succeeds is committed, after which the storage of the replica may
\* keep the entries of its indexes in any order.
Replay(kind, result, transfer_tx_hash, amount, replayed) ==
    /\ tx_count < MaxReplay
    /\ Record(kind, result, transfer_tx_hash, amount)
    /\ \E layout \in IF replayed.status = Ok THEN Layouts(replayed.fork)
                      ELSE {replica.layout} :
          replica' = [fork |-> Committed(replica.fork, replayed),
                      status |-> replayed.status,
                      layout |-> layout]
    /\ UNCHANGED <<pool, credit>>

ReplayCreateWallet(author, self) ==
    /\ KeysBefore(author) \subseteq DOMAIN wallets
    /\ Replay("CreateWallet", CreateWallet_execute(Fork, author, NextHash, self), 0, 0,
              CreateWallet_execute(replica.fork, author, NextHash, self))

ReplayIssue(author, self) ==
    Replay("Issue", Issue_execute(Fork, author, NextHash, self), 0, self.amount,
           Issue_execute(replica.fork, author, NextHash, self))

ReplayTransfer(author, self) ==
    Replay("Transfer", Transfer_execute(Fork, author, NextHash, self), 0, 0,
           Transfer_execute(replica.fork, author, NextHash, self))

ReplayApprove(author, self) ==
    Replay("Approve", Approve_execute(Fork, author, NextHash, self),
           self.transfer_tx_hash, 0,
           Approve_execute(replica.fork, author, NextHash, self))

NextReplay ==
    \/ \E author \in Keys, self \in CreateWalletPayloads :
          ReplayCreateWallet(author, self)
    \/ \E author \in Keys, self \in IssuePayloads : ReplayIssue(author, self)
    \/ \E author \in Keys, self \in TransferPayloads : ReplayTransfer(author, self)
    \/ \E author \in Keys, self \in ApprovePayloads : ReplayApprove(author, self)

SpecReplay == Init /\ [][NextReplay]_vars

(***************************************************************************)
(* The pool of unconfirmed transactions (src/tests/api.rs:359-363): a      *)
(* transaction is submitted first, which gives it its hash and changes     *)
(* nothing else, and is executed when a block that names its hash is       *)
(* created (create_block_with_tx_hashes); it may stay in the pool forever. *)
(***************************************************************************)
\* The hash of the next transaction submitted: every transaction has its own.
SubmitHash == tx_count + Cardinality(DOMAIN pool) + 1

\* The transactions that are submitted to the pool, those of the tests: the
\* wallet creations of alice and bob, an issue of 1 by alice, the transfer
\* of 1 from alice to bob with carol as approver, and the approvals by carol
\* of the transactions submitted so far.
PoolTransactions ==
    [kind : {"CreateWallet"}, author : {"alice", "bob"}, self : CreateWalletPayloads]
    \cup {[kind |-> "Issue", author |-> "alice", self |-> [amount |-> 1, seed |-> 0]]}
    \cup {[kind |-> "Transfer", author |-> "alice",
           self |-> [from |-> "alice", to |-> "bob", approver |-> "carol",
                     amount |-> 1, seed |-> 0]]}
    \cup {[kind |-> "Approve", author |-> "carol",
           self |-> [approver |-> "carol", transfer_tx_hash |-> hash, seed |-> 0]] :
             hash \in 1 .. (SubmitHash - 1)}

\* Mutant: a missing transfer is not an error, the Approve does nothing.
WalletTransactions_execute_lenient(fork, hash, tx) ==
    CASE tx.kind = "CreateWallet" ->
             CreateWallet_execute(fork, tx.author, hash, tx.self)
      [] tx.kind = "Issue" -> Issue_execute(fork, tx.author, hash, tx.self)
      [] tx.kind = "Transfer" -> Transfer_execute(fork, tx.author, hash, tx.self)
      [] tx.kind = "Approve" ->
             IF Schema_has_transfer(fork, tx.self.transfer_tx_hash)
               THEN Approve_execute(fork, tx.author, hash, tx.self)
               ELSE Return(Ok, fork)

\* enum WalletTransactions: the transaction is executed by its own kind.
WalletTransactions_execute(fork, hash, tx) ==
    CASE tx.kind = "CreateWallet" ->
             CreateWallet_execute(fork, tx.author, hash, tx.self)
      [] tx.kind = "Issue" -> Issue_execute(fork, tx.author, hash, tx.self)
      [] tx.kind = "Transfer" -> Transfer_execute(fork, tx.author, hash, tx.self)
      [] tx.kind = "Approve" -> Approve_execute(fork, tx.author, hash, tx.self)

\* A transaction is sent to the node: it waits in the pool.
Submit(tx) ==
    /\ SubmitHash <= MaxTx
    /\ Cardinality(DOMAIN pool) < MaxPool
    /\ pool' = MapIndex_put(pool, SubmitHash, tx)
    /\ UNCHANGED <<wallets, transfers, wallet_history, tx_count, last, approved,
                   replica, credit, issued>>

\* A block with one transaction of the pool is created: the transaction is
\* executed and leaves the pool.
CreateBlock(hash) ==
    /\ hash \in DOMAIN pool
    /\ Record(pool[hash].kind, WalletTransactions_execute(Fork, hash, pool[hash]),
              IF pool[hash].kind = "Approve"
                THEN pool[hash].self.transfer_tx_hash ELSE 0,
              IF pool[hash].kind = "Issue" THEN pool[hash].self.amount ELSE 0)
    /\ pool' = MapIndex_remove(pool, hash)
    /\ UNCHANGED <<replica, credit>>

NextPool ==
    \/ \E tx \in PoolTransactions : Submit(tx)
    \/ \E hash \in Hashes : CreateBlock(hash)

SpecPool == Init /\ [][NextPool]_vars

(***************************************************************************)
(* The additions to a balance at the width of u64: the credit of an Issue  *)
(* to the wallet of its author (transactions.rs:256-259) and the credit of *)
(* an Approve to the receiver (transactions.rs:243).  Both call            *)
(* Schema::increase_wallet_balance, which returns nothing, and then return *)
(* Ok(()): no error is returned for the addition.                          *)
(***************************************************************************)
\* Balances and amounts: small values, the values around the limbs and the
\* values next to u64::MAX.
U64Samples ==
    {U64_from(0), U64_from(1), U64_from(INITIAL_BALANCE), U64_from(Limb - 1),
     U64_from(Limb), <<0, Limb - 1, Limb - 1, Limb - 1>>, <<Limb \div 2, 0, 0, 0>>,
     <<Limb - 1, Limb - 1, Limb - 1, Limb - 1 - INITIAL_BALANCE>>,
     <<Limb - 1, Limb - 1, Limb - 1, Limb - INITIAL_BALANCE>>,
     <<Limb - 1, Limb - 1, Limb - 1, Limb - 2>>, U64_MAX}

InitU64 ==
    /\ wallets = EmptyFork.wallets
    /\ transfers = EmptyFork.transfers
    /\ wallet_history = EmptyFork.wallet_history
    /\ tx_count = 0
    /\ last = NoTx
    /\ approved = {}
    /\ replica = [fork |-> EmptyFork, status |-> Ok, layout |-> EmptyLayout]
    /\ pool = EmptyIndex
    /\ credit \in [kind : {"none"}, balance : U64Samples, amount : U64Samples,
                   status : {"success"}, after : {U64_from(0)}]
    /\ issued = 0

\* The credit of kind Issue or Approve to a wallet that holds credit.balance.
Credit(kind) ==
    /\ credit.kind = "none"
    /\ \E outcome \in U64_add(credit.balance, credit.amount) :
          credit' = [credit EXCEPT !.kind = kind, !.status = outcome.status,
                                   !.after = outcome.balance]
    /\ UNCHANGED <<wallets, transfers, wallet_history, tx_count, last, approved,
                   replica, pool, issued>>

IssueCredit == Credit("Issue")

ApproveCredit == Credit("Approve")

NextU64 == IssueCredit \/ ApproveCredit

SpecU64 == InitU64 /\ [][NextU64]_vars

(***************************************************************************)
(* The claims.  A claim about what a transaction does is stated for every  *)
(* transaction that can be executed in a reachable state: the outcome of   *)
(* execute on the fork of that state, and the ledger the commit leaves.    *)
(***************************************************************************)
HasWallet(key) == key \in DOMAIN wallets

\* The pending transfer a Transfer payload is to leave.
PendingOf(self) ==
    [from |-> self.from, to |-> self.to, approver |-> self.approver,
     amount |-> self.amount, seed |-> self.seed]

\* C1: after any successful Transfer the sender's balance is lower by
\* amount, the sender's retained_amount is higher by amount, the pending
\* transfer (from, to, approver, amount, seed) is held under the hash of the
\* Transfer, and the receiver's balance and retained_amount are unchanged.
C1_TransferHoldsFunds ==
    CanExecute =>
    \A author \in Keys, self \in TransferPayloads :
        LET result == Transfer_execute(Fork, author, NextHash, self)
            after == Committed(Fork, result)
        IN result.status = Ok =>
             /\ HasWallet(self.from) /\ HasWallet(self.to)
             /\ after.wallets[self.from].balance
                    = wallets[self.from].balance - self.amount
             /\ after.wallets[self.from].retained_amount
                    = wallets[self.from].retained_amount + self.amount
             /\ NextHash \in DOMAIN after.transfers
             /\ after.transfers[NextHash] = PendingOf(self)
             /\ after.wallets[self.to].balance = wallets[self.to].balance
             /\ after.wallets[self.to].retained_amount
                    = wallets[self.to].retained_amount

\* A Transfer of 1 has just succeeded: the sender holds 99 and retains 1,
\* the receiver still holds its initial balance.
C1_Witness ==
    /\ last.kind = "Transfer" /\ last.status = Ok
    /\ tx_count \in DOMAIN transfers
    /\ LET transfer == transfers[tx_count]
       IN /\ transfer.amount = 1
          /\ wallets[transfer.from].balance = INITIAL_BALANCE - 1
          /\ wallets[transfer.from].retained_amount = 1
          /\ wallets[transfer.to].balance = INITIAL_BALANCE
          /\ wallets[transfer.to].retained_amount = 0

\* C2: after any successful Approve of a pending transfer the sender's
\* retained_amount is lower by the held amount, the receiver's balance is
\* higher by it, the sender's balance and the receiver's retained_amount are
\* unchanged, and the pending transfer no longer exists.
C2_ApproveMovesFunds ==
    CanExecute =>
    \A author \in Keys, self \in ApprovePayloads :
        LET result == Approve_execute(Fork, author, NextHash, self)
            after == Committed(Fork, result)
            hash == self.transfer_tx_hash
        IN result.status = Ok =>
             /\ hash \in DOMAIN transfers
             /\ LET transfer == transfers[hash]
                    from == transfer.from
                    to == transfer.to
                IN /\ HasWallet(from) /\ HasWallet(to)
                   /\ after.wallets[from].retained_amount
                          = wallets[from].retained_amount - transfer.amount
                   /\ after.wallets[to].balance
                          = wallets[to].balance + transfer.amount
                   /\ after.wallets[from].balance = wallets[from].balance
                   /\ after.wallets[to].retained_amount
                          = wallets[to].retained_amount
             /\ hash \notin DOMAIN after.transfers

\* An Approve has just succeeded and moved 1: one wallet holds 99 with
\* nothing retained, another holds 101, and no transfer is pending.
C2_Witness ==
    /\ last.kind = "Approve" /\ last.status = Ok
    /\ last.transfer_tx_hash \in approved
    /\ DOMAIN transfers = {}
    /\ \E from \in DOMAIN wallets, to \in DOMAIN wallets :
          /\ wallets[from].balance = INITIAL_BALANCE - 1
          /\ wallets[from].retained_amount = 0
          /\ wallets[to].balance = INITIAL_BALANCE + 1
          /\ wallets[to].retained_amount = 0

\* The status of a failure with this code and this description.
Failure(code, description) ==
    [type |-> "error", code |-> code, description |-> description]

\* C3: a pending transfer is consumed exactly once: once an Approve of a
\* transfer hash has succeeded, every Approve that references the same hash,
\* by any author and with any seed, fails with TransferNotFound (code 4) and
\* leaves every balance and retained_amount unchanged.
C3_ApproveConsumesOnce ==
    CanExecute =>
    \A author \in Keys, self \in ApprovePayloads :
        self.transfer_tx_hash \in approved =>
            LET result == Approve_execute(Fork, author, NextHash, self)
            IN /\ result.status = Failure(4, "Transfer doesn't exist")
               /\ Committed(Fork, result).wallets = wallets

\* The transfer of 1 was approved, and a second Approve of the same hash
\* has just failed with TransferNotFound: the balances stay at 99 and 101.
C3_Witness ==
    /\ last.kind = "Approve"
    /\ last.transfer_tx_hash \in approved
    /\ last.status = Failure(4, "Transfer doesn't exist")
    /\ \E from \in DOMAIN wallets, to \in DOMAIN wallets :
          /\ wallets[from].balance = INITIAL_BALANCE - 1
          /\ wallets[from].retained_amount = 0
          /\ wallets[to].balance = INITIAL_BALANCE + 1

\* The preconditions of the four transactions, as the specification
\* states them: a transaction fails validation when one of them fails.
CreateWalletInvalid(author) == HasWallet(author)

IssueInvalid(author) == ~HasWallet(author)

TransferInvalid(author, self) ==
    \/ author # self.from
    \/ self.from = self.to
    \/ self.approver = self.from
    \/ self.approver = self.to
    \/ ~HasWallet(self.from)
    \/ ~HasWallet(self.to)
    \/ wallets[self.from].balance < self.amount

ApproveInvalid(author, self) ==
    \/ self.transfer_tx_hash \notin DOMAIN transfers
    \/ LET transfer == transfers[self.transfer_tx_hash]
       IN \/ author # transfer.approver
          \/ ~HasWallet(transfer.from)
          \/ ~HasWallet(transfer.to)
          \/ wallets[transfer.from].retained_amount < transfer.amount

\* A transaction that fails validation, or returns an error, is reported as
\* an error and leaves the committed ledger as it was.
RejectedCleanly(invalid, result) ==
    (invalid \/ result.status # Ok) =>
        /\ result.status.type = "error"
        /\ Committed(Fork, result) = Fork

\* C4: every transaction that fails validation, of any kind and with any
\* error, leaves the committed ledger exactly as it was: no account field,
\* no pending transfer and no history entry changes.
C4_FailureChangesNothing ==
    CanExecute =>
    /\ \A author \in Keys, self \in CreateWalletPayloads :
          RejectedCleanly(CreateWalletInvalid(author),
                          CreateWallet_execute(Fork, author, NextHash, self))
    /\ \A author \in Keys, self \in IssuePayloads :
          RejectedCleanly(IssueInvalid(author),
                          Issue_execute(Fork, author, NextHash, self))
    /\ \A author \in Keys, self \in TransferPayloads :
          RejectedCleanly(TransferInvalid(author, self),
                          Transfer_execute(Fork, author, NextHash, self))
    /\ \A author \in Keys, self \in ApprovePayloads :
          RejectedCleanly(ApproveInvalid(author, self),
                          Approve_execute(Fork, author, NextHash, self))

\* A Transfer has just failed with InsufficientFunds: alice, who holds 99
\* and retains 1 for the one pending transfer, and bob are as the earlier
\* Transfer of 1 left them.
C4_Witness ==
    /\ last.kind = "Transfer"
    /\ last.status = Failure(3, "Insufficient currency amount")
    /\ DOMAIN wallets = {"alice", "bob"}
    /\ DOMAIN transfers = {3}
    /\ tx_count = 4
    /\ wallets["alice"].balance = INITIAL_BALANCE - 1
    /\ wallets["alice"].retained_amount = 1
    /\ wallets["alice"].history_len = 2
    /\ wallet_history["alice"] = <<1, 3>>
    /\ wallets["bob"].balance = INITIAL_BALANCE
    /\ wallets["bob"].history_len = 1
    /\ wallet_history["bob"] = <<2>>

\* The first precondition of a Transfer that fails, in the order of the
\* specification; "none" when all hold.
TransferFirstFailure(author, self) ==
    IF author # self.from THEN "WrongSender"
    ELSE IF self.from = self.to THEN "SenderIsReceiver"
    ELSE IF self.approver = self.from THEN "ApproverIsSender"
    ELSE IF self.approver = self.to THEN "ApproverIsReceiver"
    ELSE IF ~HasWallet(self.from) THEN "SenderNotFound"
    ELSE IF ~HasWallet(self.to) THEN "ReceiverNotFound"
    ELSE IF wallets[self.from].balance < self.amount THEN "InsufficientFunds"
    ELSE "none"

\* How many preconditions of a Transfer fail at once.
TransferFailureCount(author, self) ==
    Cardinality({i \in 1 .. 7 :
        \/ i = 1 /\ author # self.from
        \/ i = 2 /\ self.from = self.to
        \/ i = 3 /\ self.approver = self.from
        \/ i = 4 /\ self.approver = self.to
        \/ i = 5 /\ ~HasWallet(self.from)
        \/ i = 6 /\ ~HasWallet(self.to)
        \/ i = 7 /\ HasWallet(self.from)
                 /\ wallets[self.from].balance < self.amount})

\* The status that reports a failure of a Transfer.
TransferReport(failure) ==
    CASE failure = "WrongSender" -> ExecutionError_new(ERROR_WRONG_SENDER)
      [] failure = "SenderIsReceiver" ->
             ExecutionError_new(ERROR_SENDER_SAME_AS_RECEIVER)
      [] failure = "ApproverIsSender" ->
             ExecutionError_new(ERROR_APPROVER_SAME_AS_SENDER)
      [] failure = "ApproverIsReceiver" ->
             ExecutionError_new(ERROR_APPROVER_SAME_AS_RECEIVER)
      [] failure = "SenderNotFound" -> Failure(1, "Sender doesn't exist")
      [] failure = "ReceiverNotFound" -> Failure(2, "Receiver doesn't exist")
      [] failure = "InsufficientFunds" ->
             Failure(3, "Insufficient currency amount")
      [] failure = "none" -> Ok

\* C5: Transfer checks its preconditions in a fixed order and reports the
\* first one that fails: WrongSender, SenderIsReceiver, ApproverIsSender,
\* ApproverIsReceiver, SenderNotFound (1), ReceiverNotFound (2),
\* InsufficientFunds (3); when several fail at once the earliest is reported.
C5_TransferReportsFirstFailure ==
    CanExecute =>
    \A author \in Keys, self \in TransferPayloads :
        Transfer_execute(Fork, author, NextHash, self).status
            = TransferReport(TransferFirstFailure(author, self))

\* A Transfer has just failed with ApproverIsReceiver on a ledger with no
\* wallet at all: its sender and its receiver are missing too, and the
\* earlier check is the one reported.
C5_Witness ==
    /\ last.kind = "Transfer"
    /\ last.status = ExecutionError_new(ERROR_APPROVER_SAME_AS_RECEIVER)
    /\ DOMAIN wallets = {}
    /\ \E author \in Keys, self \in TransferPayloads :
          /\ TransferFirstFailure(author, self) = "ApproverIsReceiver"
          /\ TransferFailureCount(author, self) = 3

\* The failures of a Transfer, in the order of its checks.
TransferFailures ==
    {"WrongSender", "SenderIsReceiver", "ApproverIsSender", "ApproverIsReceiver",
     "SenderNotFound", "ReceiverNotFound", "InsufficientFunds"}

\* The codes of the five validation failures.
ValidationCode ==
    [m \in {"WrongSender", "SenderIsReceiver", "ApproverIsSender",
            "ApproverIsReceiver", "WrongApprover"} |->
        CASE m = "WrongSender" -> ERROR_WRONG_SENDER
          [] m = "SenderIsReceiver" -> ERROR_SENDER_SAME_AS_RECEIVER
          [] m = "ApproverIsSender" -> ERROR_APPROVER_SAME_AS_SENDER
          [] m = "ApproverIsReceiver" -> ERROR_APPROVER_SAME_AS_RECEIVER
          [] m = "WrongApprover" -> ERROR_WRONG_APPROVER]

\* The variants of the Error enum.
TypedErrors ==
    {"WalletAlreadyExists", "SenderNotFound", "ReceiverNotFound",
     "InsufficientCurrencyAmount", "TransferNotFound"}

\* C6: the codes of WrongSender, SenderIsReceiver, ApproverIsSender,
\* ApproverIsReceiver and WrongApprover are pairwise distinct, none of them
\* is the code of AlreadyExists (0), SenderNotFound (1), ReceiverNotFound (2),
\* InsufficientFunds (3) or TransferNotFound (4), and a Transfer that fails
\* for one reason never reports the code of another reason.
C6_ValidationCodesDistinguishable ==
    /\ \A m \in DOMAIN ValidationCode, n \in DOMAIN ValidationCode :
          m # n => ValidationCode[m] # ValidationCode[n]
    /\ \A m \in DOMAIN ValidationCode, e \in TypedErrors :
          ValidationCode[m] # Error_code(e)
    /\ CanExecute =>
       \A author \in Keys, self \in TransferPayloads :
           LET failure == TransferFirstFailure(author, self)
               result == Transfer_execute(Fork, author, NextHash, self)
           IN failure # "none" =>
                \A other \in TransferFailures \ {failure} :
                    result.status.code # TransferReport(other).code

\* C7, as stated: an Issue whose author has no wallet fails with code 1
\* (SenderNotFound) and changes nothing; an Issue whose author has a wallet
\* succeeds and raises its balance by amount, whatever the seed.
C7_IssueWithoutWalletReportsCode1 ==
    CanExecute =>
    \A author \in Keys, self \in IssuePayloads :
        LET result == Issue_execute(Fork, author, NextHash, self)
            after == Committed(Fork, result)
        IN IF HasWallet(author)
             THEN /\ result.status = Ok
                  /\ after.wallets[author].balance
                         = wallets[author].balance + self.amount
             ELSE /\ result.status.type = "error"
                  /\ result.status.code = 1
                  /\ after = Fork

\* C7, amended: an Issue whose author has no wallet fails with code 2
\* (ReceiverNotFound, "Receiver doesn't exist") and changes nothing; an Issue
\* whose author has a wallet succeeds and raises its balance by amount,
\* whatever the seed.
C7_IssueWithoutWalletReportsCode2 ==
    CanExecute =>
    \A author \in Keys, self \in IssuePayloads :
        LET result == Issue_execute(Fork, author, NextHash, self)
            after == Committed(Fork, result)
        IN IF HasWallet(author)
             THEN /\ result.status = Ok
                  /\ after.wallets[author].balance
                         = wallets[author].balance + self.amount
             ELSE /\ result.status = Failure(2, "Receiver doesn't exist")
                  /\ after = Fork

\* alice has issued 1 to her wallet, and an Issue by a key with no wallet
\* has just failed with ReceiverNotFound: alice still holds 101.
C7_Witness ==
    /\ last.kind = "Issue"
    /\ last.status = Failure(2, "Receiver doesn't exist")
    /\ DOMAIN wallets = {"alice"}
    /\ wallets["alice"].balance = INITIAL_BALANCE + 1
    /\ wallet_history["alice"] = <<1, 2>>
    /\ tx_count = 3

\* C8: a CreateWallet by an author with no wallet succeeds and yields a
\* wallet with balance INITIAL_BALANCE (100), retained_amount 0 and
\* history_len 1; a CreateWallet by an author who has a wallet fails with
\* WalletAlreadyExists (code 0) and leaves every field of that wallet
\* unchanged, whatever its balance, retained_amount or history.
C8_CreateWalletOnce ==
    CanExecute =>
    \A author \in Keys, self \in CreateWalletPayloads :
        LET result == CreateWallet_execute(Fork, author, NextHash, self)
            after == Committed(Fork, result)
        IN IF ~HasWallet(author)
             THEN /\ result.status = Ok
                  /\ author \in DOMAIN after.wallets
                  /\ after.wallets[author].balance = 100
                  /\ after.wallets[author].balance = INITIAL_BALANCE
                  /\ after.wallets[author].retained_amount = 0
                  /\ after.wallets[author].history_len = 1
             ELSE /\ result.status = Failure(0, "Wallet already exists")
                  /\ after.wallets[author] = wallets[author]
                  /\ after.wallet_history[author] = wallet_history[author]

\* alice holds 99 and retains 1 after a Transfer, and her second
\* CreateWallet has just failed with WalletAlreadyExists: the wallet is as
\* the Transfer left it.
C8_Witness ==
    /\ last.kind = "CreateWallet"
    /\ last.status = Failure(0, "Wallet already exists")
    /\ HasWallet("alice")
    /\ wallets["alice"].balance = INITIAL_BALANCE - 1
    /\ wallets["alice"].retained_amount = 1
    /\ wallets["alice"].history_len = 2
    /\ ~HasWallet("carol")

\* C9, as stated: a Transfer whose from equals its to fails with
\* SenderIsReceiver, regardless of the author, the approver, the amount and
\* the balances.
C9_SelfTransferIsSenderIsReceiver ==
    CanExecute =>
    \A author \in Keys, self \in TransferPayloads :
        self.from = self.to =>
            Transfer_execute(Fork, author, NextHash, self).status
                = ExecutionError_new(ERROR_SENDER_SAME_AS_RECEIVER)

\* C9, amended: a Transfer whose from equals its to always fails, with
\* SenderIsReceiver when its author is from and with WrongSender when its
\* author is not from, regardless of the approver, the amount and the
\* balances.
C9_SelfTransferFails ==
    CanExecute =>
    \A author \in Keys, self \in TransferPayloads :
        self.from = self.to =>
            LET result == Transfer_execute(Fork, author, NextHash, self)
            IN /\ result.status # Ok
               /\ result.status =
                      IF author = self.from
                        THEN ExecutionError_new(ERROR_SENDER_SAME_AS_RECEIVER)
                        ELSE ExecutionError_new(ERROR_WRONG_SENDER)

\* alice has put her whole balance on hold, and a Transfer has just failed
\* with SenderIsReceiver, the error of an author who names itself as from
\* and as to.
C9_Witness ==
    /\ last.kind = "Transfer"
    /\ last.status = ExecutionError_new(ERROR_SENDER_SAME_AS_RECEIVER)
    /\ DOMAIN wallets = {"alice", "bob"}
    /\ wallets["alice"].balance = 0
    /\ wallets["alice"].retained_amount = INITIAL_BALANCE

\* A Transfer that passes the checks on the parties and on the existence of
\* the two wallets.
TransferPassesChecks(author, self) ==
    /\ author = self.from
    /\ self.from # self.to
    /\ self.approver # self.from
    /\ self.approver # self.to
    /\ HasWallet(self.from)
    /\ HasWallet(self.to)

\* C10: for a Transfer that passes the party and existence checks: when
\* amount equals the sender's balance it succeeds and leaves balance 0 and
\* retained_amount raised by the full amount; when amount equals balance + 1
\* it fails with InsufficientFunds (code 3) and changes nothing; the funds in
\* retained_amount never count: it succeeds only if amount <= balance.
C10_TransferBalanceBoundary ==
    CanExecute =>
    \A author \in Keys, self \in TransferPayloads :
        TransferPassesChecks(author, self) =>
            LET sender == wallets[self.from]
                result == Transfer_execute(Fork, author, NextHash, self)
                after == Committed(Fork, result)
            IN /\ self.amount = sender.balance =>
                      /\ result.status = Ok
                      /\ after.wallets[self.from].balance = 0
                      /\ after.wallets[self.from].retained_amount
                             = sender.retained_amount + self.amount
               /\ self.amount = sender.balance + 1 =>
                      /\ result.status = Failure(3, "Insufficient currency amount")
                      /\ after = Fork
               /\ result.status = Ok <=> self.amount <= sender.balance

\* alice issued 1, put 100 on hold and has just put the 1 that was left on
\* hold as well: her balance is 0 and she retains 101 in two transfers.
C10_Witness ==
    /\ last.kind = "Transfer" /\ last.status = Ok
    /\ tx_count \in DOMAIN transfers
    /\ transfers[tx_count].from = "alice"
    /\ transfers[tx_count].amount = 1
    /\ wallets["alice"].balance = 0
    /\ wallets["alice"].retained_amount = INITIAL_BALANCE + 1
    /\ Cardinality(DOMAIN transfers) = 2

\* The layout in which the storage of the first instance holds the ledger.
LedgerLayout == CHOOSE layout \in Layouts(Fork) : TRUE

C12_UncommittedHasNoEffect ==
    /\ \A hash \in DOMAIN pool :
          /\ hash \notin DOMAIN transfers
          /\ \A key \in Keys :
                \A i \in DOMAIN wallet_history[key] :
                    wallet_history[key][i] # hash
          /\ pool[hash].kind = "CreateWallet" /\ HasWallet(pool[hash].author) =>
                wallet_history[pool[hash].author][1] \notin DOMAIN pool
    /\ CanExecute =>
       \A author \in Keys, self \in ApprovePayloads :
           /\ self.transfer_tx_hash \in DOMAIN pool
           /\ pool[self.transfer_tx_hash].kind = "Transfer"
           => LET result == WalletTransactions_execute(
                                Fork, SubmitHash,
                                [kind |-> "Approve", author |-> author,
                                 self |-> self])
              IN /\ result.status = Failure(4, "Transfer doesn't exist")
                 /\ Committed(Fork, result).wallets = wallets

\* The Transfer of alice waits in the pool, and the Approve of its hash by
\* carol has just been executed and has failed with TransferNotFound: alice
\* and bob hold their initial balance and nothing is retained.
C12_Witness ==
    /\ DOMAIN pool = {3}
    /\ pool[3].kind = "Transfer"
    /\ last.kind = "Approve"
    /\ last.transfer_tx_hash = 3
    /\ last.status = Failure(4, "Transfer doesn't exist")
    /\ DOMAIN wallets = {"alice", "bob"}
    /\ \A key \in DOMAIN wallets :
          wallets[key].balance = INITIAL_BALANCE /\ wallets[key].retained_amount = 0

\* C13: the approver of a transfer needs no wallet: a Transfer that names
\* an approver with no wallet succeeds when all its other preconditions
\* hold, and the Approve of a pending transfer by its approver, who has no
\* wallet, succeeds and moves the funds; neither creates a wallet for the
\* approver.
C13_ApproverNeedsNoWallet ==
    CanExecute =>
    /\ \A author \in Keys, self \in TransferPayloads :
          /\ TransferPassesChecks(author, self)
          /\ self.amount <= wallets[self.from].balance
          /\ ~HasWallet(self.approver)
          => LET result == Transfer_execute(Fork, author, NextHash, self)
                 after == Committed(Fork, result)
             IN /\ result.status = Ok
                /\ after.transfers[NextHash].approver = self.approver
                /\ DOMAIN after.wallets = DOMAIN wallets
    /\ \A author \in Keys, self \in ApprovePayloads :
          /\ self.transfer_tx_hash \in DOMAIN transfers
          /\ transfers[self.transfer_tx_hash].approver = author
          /\ ~HasWallet(author)
          => LET transfer == transfers[self.transfer_tx_hash]
                 result == Approve_execute(Fork, author, NextHash, self)
                 after == Committed(Fork, result)
             IN /\ result.status = Ok
                /\ after.wallets[transfer.to].balance
                       = wallets[transfer.to].balance + transfer.amount
                /\ after.wallets[transfer.from].retained_amount
                       = wallets[transfer.from].retained_amount - transfer.amount
                /\ DOMAIN after.wallets = DOMAIN wallets

\* Only alice and bob have wallets, and the Approve of the transfer of 1
\* between them has just succeeded: its approver, who differs from both, has
\* no wallet.
C13_Witness ==
    /\ last.kind = "Approve" /\ last.status = Ok
    /\ DOMAIN wallets = {"alice", "bob"}
    /\ ~HasWallet("carol")
    /\ \E from \in DOMAIN wallets, to \in DOMAIN wallets :
          /\ wallets[from].balance = INITIAL_BALANCE - 1
          /\ wallets[to].balance = INITIAL_BALANCE + 1
          /\ wallets[from].retained_amount = 0
          /\ wallets[from].history_len = 3

\* C14: an Approve of an existing pending transfer whose author is not the
\* recorded approver (the sender and the receiver of the transfer included)
\* fails with WrongApprover and leaves the pending transfer held with the
\* same fields, so that the next Approve of the same hash by the recorded
\* approver succeeds.
C14_WrongApproverKeepsTransfer ==
    CanExecute =>
    \A author \in Keys, self \in ApprovePayloads :
        LET hash == self.transfer_tx_hash
        IN hash \in DOMAIN transfers /\ author # transfers[hash].approver =>
             LET result == Approve_execute(Fork, author, NextHash, self)
                 after == Committed(Fork, result)
                 later == Approve_execute(after, transfers[hash].approver,
                                          NextHash + 1, self)
             IN /\ result.status = ExecutionError_new(ERROR_WRONG_APPROVER)
                /\ hash \in DOMAIN after.transfers
                /\ after.transfers[hash] = transfers[hash]
                /\ after.wallets = wallets
                /\ later.status = Ok
                /\ hash \notin DOMAIN later.fork.transfers

\* An Approve of the pending transfer of alice has just failed with
\* WrongApprover (code 4, no description): the transfer is still held and
\* alice still retains its amount.
C14_Witness ==
    /\ last.kind = "Approve"
    /\ last.status = ExecutionError_new(ERROR_WRONG_APPROVER)
    /\ last.transfer_tx_hash \in DOMAIN transfers
    /\ transfers[last.transfer_tx_hash].from = "alice"
    /\ transfers[last.transfer_tx_hash].amount = 1
    /\ wallets["alice"].retained_amount = 1

\* The change of the retained amount of an existing wallet from the
\* committed ledger to the ledger after a transaction.
RetainedChange(after, key) ==
    after.wallets[key].retained_amount - wallets[key].retained_amount

\* C15: the retained_amount of a wallet changes in two ways only: a
\* successful Transfer authored by its owner raises it by the amount of the
\* transfer, and a successful Approve of a pending transfer sent by its owner
\* lowers it by the full amount of that transfer.  CreateWallet, Issue,
\* failed transactions and transactions in which the wallet is only receiver
\* or approver leave it as it is.
C15_RetainedChangesTwoWays ==
    [](CanExecute =>
       /\ \A author \in Keys, self \in CreateWalletPayloads :
             LET after == Committed(Fork, CreateWallet_execute(
                              Fork, author, NextHash, self))
             IN \A key \in DOMAIN wallets : RetainedChange(after, key) = 0
       /\ \A author \in Keys, self \in IssuePayloads :
             LET after == Committed(Fork, Issue_execute(
                              Fork, author, NextHash, self))
             IN \A key \in DOMAIN wallets : RetainedChange(after, key) = 0
       /\ \A author \in Keys, self \in TransferPayloads :
             LET result == Transfer_execute(Fork, author, NextHash, self)
                 after == Committed(Fork, result)
             IN \A key \in DOMAIN wallets :
                    RetainedChange(after, key)
                        = IF result.status = Ok /\ author = key
                            THEN self.amount ELSE 0
       /\ \A author \in Keys, self \in ApprovePayloads :
             LET result == Approve_execute(Fork, author, NextHash, self)
                 after == Committed(Fork, result)
             IN \A key \in DOMAIN wallets :
                    RetainedChange(after, key)
                        = IF /\ result.status = Ok
                             /\ transfers[self.transfer_tx_hash].from = key
                            THEN 0 - transfers[self.transfer_tx_hash].amount
                            ELSE 0)

\* alice put 1 on hold twice, and the Approve of one of the two transfers
\* has just succeeded: she retains the 1 of the transfer that is still
\* pending.
C15_Witness ==
    /\ last.kind = "Approve" /\ last.status = Ok
    /\ HasWallet("alice")
    /\ wallets["alice"].balance = INITIAL_BALANCE - 2
    /\ wallets["alice"].retained_amount = 1
    /\ Cardinality(DOMAIN transfers) = 1
    /\ \A hash \in DOMAIN transfers :
          transfers[hash].from = "alice" /\ transfers[hash].amount = 1

\* The pending transfers of the committed ledger are all held in the ledger
\* after a transaction, with the same fields and with their amount still
\* retained by their sender, except the one the transaction consumed.
TransfersKept(after, consumed) ==
    \A hash \in DOMAIN transfers \ consumed :
        /\ hash \in DOMAIN after.transfers
        /\ after.transfers[hash] = transfers[hash]
        /\ after.wallets[transfers[hash].from].retained_amount
               >= transfers[hash].amount

\* C16: a pending transfer is changed or removed by nothing but a successful
\* Approve of its hash by its recorded approver: every CreateWallet, Issue
\* and Transfer, every failing Approve and every Approve of another hash
\* leaves the record with the same from, to, approver, amount and seed and
\* leaves its amount retained by the sender.  These four are the only
\* transactions: there is no timeout, cancel or reject.
C16_PendingTransferIsStable ==
    [](CanExecute =>
       /\ \A author \in Keys, self \in CreateWalletPayloads :
             TransfersKept(Committed(Fork, CreateWallet_execute(
                               Fork, author, NextHash, self)), {})
       /\ \A author \in Keys, self \in IssuePayloads :
             TransfersKept(Committed(Fork, Issue_execute(
                               Fork, author, NextHash, self)), {})
       /\ \A author \in Keys, self \in TransferPayloads :
             TransfersKept(Committed(Fork, Transfer_execute(
                               Fork, author, NextHash, self)), {})
       /\ \A author \in Keys, self \in ApprovePayloads :
             LET result == Approve_execute(Fork, author, NextHash, self)
                 hash == self.transfer_tx_hash
             IN IF result.status = Ok
                  THEN /\ hash \in DOMAIN transfers
                       /\ author = transfers[hash].approver
                       /\ TransfersKept(Committed(Fork, result), {hash})
                  ELSE TransfersKept(Committed(Fork, result), {}))

\* The transfer of 1 from alice to bob, the third transaction, is still
\* pending after a fourth transaction and an Issue, the fifth: alice retains
\* 1 and bob has received nothing.
C16_Witness ==
    /\ tx_count = 5
    /\ last.kind = "Issue" /\ last.status = Ok
    /\ DOMAIN transfers = {3}
    /\ transfers[3].from = "alice" /\ transfers[3].to = "bob"
    /\ transfers[3].amount = 1
    /\ wallets["alice"].retained_amount = 1
    /\ wallets["bob"].balance = INITIAL_BALANCE
    /\ wallets["bob"].history_len = 1

\* The change of history_len of an existing wallet from the committed
\* ledger to the ledger after a transaction.
HistoryChange(after, key) ==
    after.wallets[key].history_len - wallets[key].history_len

\* C17: history_len counts the mutations of a wallet: a successful Issue
\* raises the author's by 1; a successful Transfer raises the sender's by 1
\* and leaves the receiver's; a successful Approve raises the sender's and
\* the receiver's by 1 each; a failed transaction and a transaction of
\* other keys raise none, so history_len never decreases; and it is the
\* length of the history of the wallet.
C17_HistoryLenCountsMutations ==
    [](/\ \A key \in DOMAIN wallets :
             wallets[key].history_len = Len(wallet_history[key])
       /\ CanExecute =>
          /\ \A author \in Keys, self \in CreateWalletPayloads :
                LET after == Committed(Fork, CreateWallet_execute(
                                 Fork, author, NextHash, self))
                IN \A key \in DOMAIN wallets : HistoryChange(after, key) = 0
          /\ \A author \in Keys, self \in IssuePayloads :
                LET result == Issue_execute(Fork, author, NextHash, self)
                    after == Committed(Fork, result)
                IN \A key \in DOMAIN wallets :
                       HistoryChange(after, key)
                           = IF result.status = Ok /\ author = key THEN 1 ELSE 0
          /\ \A author \in Keys, self \in TransferPayloads :
                LET result == Transfer_execute(Fork, author, NextHash, self)
                    after == Committed(Fork, result)
                IN \A key \in DOMAIN wallets :
                       HistoryChange(after, key)
                           = IF result.status = Ok /\ self.from = key THEN 1 ELSE 0
          /\ \A author \in Keys, self \in ApprovePayloads :
                LET result == Approve_execute(Fork, author, NextHash, self)
                    after == Committed(Fork, result)
                IN \A key \in DOMAIN wallets :
                       HistoryChange(after, key)
                           = IF /\ result.status = Ok
                                /\ key \in {transfers[self.transfer_tx_hash].from,
                                            transfers[self.transfer_tx_hash].to}
                               THEN 1 ELSE 0)

\* The third transaction was a Transfer of alice to bob and the fourth, its
\* Approve, has just succeeded: alice has three history entries (creation,
\* hold, release) and bob two (creation, credit).
C17_Witness ==
    /\ last.kind = "Approve" /\ last.status = Ok
    /\ tx_count = 4
    /\ DOMAIN wallets = {"alice", "bob"}
    /\ wallets["alice"].history_len = 3
    /\ wallet_history["alice"] = <<1, 3, 4>>
    /\ wallets["bob"].history_len = 2
    /\ wallet_history["bob"] = <<2, 4>>

\* C18: in every state reachable from the empty ledger the defensive checks
\* of Approve cannot fire: the sender and the receiver of every pending
\* transfer have wallets and the sender retains at least the amount of the
\* transfer, so an Approve that finds its transfer and is authored by the
\* recorded approver does not fail with SenderNotFound, ReceiverNotFound or
\* InsufficientFunds: it succeeds.
C18_ApproveDefensiveChecksNeverFire ==
    /\ \A hash \in DOMAIN transfers :
          /\ HasWallet(transfers[hash].from)
          /\ HasWallet(transfers[hash].to)
          /\ wallets[transfers[hash].from].retained_amount
                 >= transfers[hash].amount
    /\ CanExecute =>
       \A author \in Keys, self \in ApprovePayloads :
           /\ self.transfer_tx_hash \in DOMAIN transfers
           /\ author = transfers[self.transfer_tx_hash].approver
           => LET status == Approve_execute(Fork, author, NextHash, self).status
              IN /\ status # Failure(1, "Sender doesn't exist")
                 /\ status # Failure(2, "Receiver doesn't exist")
                 /\ status # Failure(3, "Insufficient currency amount")
                 /\ status = Ok

\* alice and bob each put 1 on hold for the other, and the Approve of
\* alice's transfer has just succeeded: the transfer of bob, the fourth
\* transaction, is still pending and bob retains its amount.
C18_Witness ==
    /\ last.kind = "Approve" /\ last.status = Ok
    /\ last.transfer_tx_hash = 3
    /\ DOMAIN transfers = {4}
    /\ transfers[4].from = "bob" /\ transfers[4].amount = 1
    /\ wallets["bob"].retained_amount = 1
    /\ wallets["bob"].balance = INITIAL_BALANCE
    /\ wallets["alice"].retained_amount = 0

\* A failure is reported with one numeric code and a description.
ReportedWithDescription(status) ==
    status # Ok =>
        /\ status.type = "error"
        /\ status.code \in 0 .. 255
        /\ status.description # NoDescription

\* C19: every failed transaction reports one numeric error code together
\* with a human-readable description: the validation failures of Transfer
\* and Approve (WrongSender, SenderIsReceiver, ApproverIsSender,
\* ApproverIsReceiver, WrongApprover) as well as AlreadyExists,
\* SenderNotFound, ReceiverNotFound, InsufficientFunds and TransferNotFound.
C19_FailureHasCodeAndDescription ==
    CanExecute =>
    /\ \A author \in Keys, self \in CreateWalletPayloads :
          ReportedWithDescription(
              CreateWallet_execute(Fork, author, NextHash, self).status)
    /\ \A author \in Keys, self \in IssuePayloads :
          ReportedWithDescription(
              Issue_execute(Fork, author, NextHash, self).status)
    /\ \A author \in Keys, self \in TransferPayloads :
          ReportedWithDescription(
              Transfer_execute(Fork, author, NextHash, self).status)
    /\ \A author \in Keys, self \in ApprovePayloads :
          ReportedWithDescription(
              Approve_execute(Fork, author, NextHash, self).status)

\* C20: the additions to a balance never wrap or crash: the credit of an
\* Issue and the receiver credit of an Approve end with the balance raised
\* by exactly amount or with a typed error, also when balance + amount
\* exceeds the maximum of u64, and never with a balance lower than before.
C20_CreditNeverWraps ==
    credit.kind # "none" =>
        /\ \/ /\ credit.status = "success"
              /\ ~U64_overflowing_add(credit.balance, credit.amount).overflow
              /\ credit.after
                     = U64_overflowing_add(credit.balance, credit.amount).value
           \/ credit.status = "error"
        /\ ~U64_lt(credit.after, credit.balance)

\* The names a CreateWallet may carry: the name the wallets were created
\* with and another one.
LaterCreateWalletPayloads == [name : Names \cup {"Mallory"}]

\* Every wallet of the committed ledger is in the ledger after a
\* transaction, with the public key and the name it had.
WalletsKept(after) ==
    \A key \in DOMAIN wallets :
        /\ key \in DOMAIN after.wallets
        /\ after.wallets[key].pub_key = wallets[key].pub_key
        /\ after.wallets[key].name = wallets[key].name

\* C21: a wallet, once created, is never removed and keeps its public key
\* and its name: every wallet is stored under its own public key, and every
\* Issue, Transfer and Approve, successful or failed, and every later
\* CreateWallet, under any name, leaves every existing wallet in the ledger
\* with the pub_key and the name it had.
C21_WalletKeepsKeyAndName ==
    [](/\ \A key \in DOMAIN wallets : wallets[key].pub_key = key
       /\ CanExecute =>
          /\ \A author \in Keys, self \in LaterCreateWalletPayloads :
                WalletsKept(Committed(Fork, CreateWallet_execute(
                                Fork, author, NextHash, self)))
          /\ \A author \in Keys, self \in IssuePayloads :
                WalletsKept(Committed(Fork, Issue_execute(
                                Fork, author, NextHash, self)))
          /\ \A author \in Keys, self \in TransferPayloads :
                WalletsKept(Committed(Fork, Transfer_execute(
                                Fork, author, NextHash, self)))
          /\ \A author \in Keys, self \in ApprovePayloads :
                WalletsKept(Committed(Fork, Approve_execute(
                                Fork, author, NextHash, self))))

\* alice's wallet was created by the first transaction and has since been
\* the sender of a hold, of its release and the author of an Issue, and a
\* second CreateWallet of alice has just failed: the wallet is still stored
\* under alice's key with the name of its creation.
C21_Witness ==
    /\ last.kind = "CreateWallet"
    /\ last.status = ExecutionError_from("WalletAlreadyExists")
    /\ HasWallet("alice")
    /\ wallets["alice"].pub_key = "alice"
    /\ wallets["alice"].name = "Alice"
    /\ wallet_history["alice"][1] = 1
    /\ wallets["alice"].history_len >= 3
    /\ approved # {}

\* The sum of balance + retained_amount over the wallets of the given keys.
RECURSIVE FundsOf(_, _)
FundsOf(index, keys) ==
    IF keys = {} THEN 0
    ELSE LET key == CHOOSE k \in keys : TRUE
         IN index[key].balance + index[key].retained_amount
                + FundsOf(index, keys \ {key})

\* The funds of a wallets index.
TotalFunds(index) == FundsOf(index, DOMAIN index)

\* C22: funds are conserved: in every committed state the sum of balance +
\* retained_amount over all wallets is INITIAL_BALANCE times the number of
\* wallets plus the sum of the amounts of the successful Issue transactions,
\* and no Transfer and no Approve, successful or failed, changes the sum.
C22_FundsConserved ==
    [](LET funds == TotalFunds(wallets)
       IN /\ funds = INITIAL_BALANCE * Cardinality(DOMAIN wallets) + issued
          /\ CanExecute =>
             /\ \A author \in Keys, self \in TransferPayloads :
                   TotalFunds(Committed(Fork, Transfer_execute(
                                  Fork, author, NextHash, self)).wallets)
                       = funds
             /\ \A author \in Keys, self \in ApprovePayloads :
                   TotalFunds(Committed(Fork, Approve_execute(
                                  Fork, author, NextHash, self)).wallets)
                       = funds)

\* alice and bob have wallets, 1 was issued, and the Approve of alice's
\* transfer of 1 to bob has just succeeded: the two wallets hold 201.
C22_Witness ==
    /\ last.kind = "Approve" /\ last.status = Ok
    /\ DOMAIN wallets = {"alice", "bob"}
    /\ issued = 1
    /\ transfers = EmptyIndex
    /\ wallets["bob"].balance \in {INITIAL_BALANCE + 1, INITIAL_BALANCE + 2}
    /\ TotalFunds(wallets) = 2 * INITIAL_BALANCE + 1

\* The sum of the amounts of the pending transfers under the given hashes
\* whose from is key.
RECURSIVE PendingAmount(_, _, _)
PendingAmount(index, hashes, key) ==
    IF hashes = {} THEN 0
    ELSE LET hash == CHOOSE h \in hashes : TRUE
         IN (IF index[hash].from = key THEN index[hash].amount ELSE 0)
                + PendingAmount(index, hashes \ {hash}, key)

\* C23: in every committed state the retained_amount of each wallet is the
\* sum of the amounts of the pending transfers whose from is that wallet; a
\* wallet with no outgoing pending transfer retains 0.
C23_RetainedIsSumOfPending ==
    [](\A key \in DOMAIN wallets :
           /\ wallets[key].retained_amount
                  = PendingAmount(transfers, DOMAIN transfers, key)
           /\ (\A hash \in DOMAIN transfers : transfers[hash].from # key)
                  => wallets[key].retained_amount = 0)

\* alice has two pending transfers of 1 and retains 2; bob has no outgoing
\* pending transfer and retains 0.
C23_Witness ==
    /\ DOMAIN wallets = {"alice", "bob"}
    /\ Cardinality(DOMAIN transfers) = 2
    /\ \A hash \in DOMAIN transfers :
          transfers[hash].from = "alice" /\ transfers[hash].amount = 1
    /\ wallets["alice"].retained_amount = 2
    /\ wallets["alice"].balance = INITIAL_BALANCE - 2
    /\ wallets["bob"].retained_amount = 0

\* The funds of a ledger: balance and retained_amount of every wallet.
Funds(fork) ==
    [key \in DOMAIN fork.wallets |->
        <<fork.wallets[key].balance, fork.wallets[key].retained_amount>>]

\* Two transactions executed one after the other on the fork of the
\* committed ledger, each under its own hash: the two outcomes and the
\* ledger that is left.
Sequence(first, first_hash, second, second_hash) ==
    LET one == Approve_execute(Fork, first.author, first_hash, first.self)
        middle == Committed(Fork, one)
        two == Approve_execute(middle, second.author, second_hash, second.self)
    IN [first |-> one.status, second |-> two.status,
        fork |-> Committed(middle, two)]

\* The Approve of a pending transfer that its recorded approver signs in its
\* own name, with the seed of the transfer (Approve::execute reads neither
\* the approver field nor the seed of the payload).
ApprovalOf(hash) ==
    [author |-> transfers[hash].approver,
     self |-> [approver |-> transfers[hash].approver, transfer_tx_hash |-> hash,
               seed |-> transfers[hash].seed]]

\* C24: approvals of distinct pending transfers commute on funds: for two
\* pending transfers, with the same or different senders and receivers, the
\* two Approve transactions executed in either order both succeed and leave
\* the same balance and retained_amount in every wallet and the same set of
\* pending transfers.
C24_ApprovalsCommute ==
    [](\A h1 \in DOMAIN transfers, h2 \in DOMAIN transfers :
           h1 < h2 =>
           LET forth == Sequence(ApprovalOf(h1), NextHash,
                                 ApprovalOf(h2), NextHash + 1)
               back == Sequence(ApprovalOf(h2), NextHash + 1,
                                ApprovalOf(h1), NextHash)
           IN /\ forth.first = Ok /\ forth.second = Ok
              /\ back.first = Ok /\ back.second = Ok
              /\ Funds(forth.fork) = Funds(back.fork)
              /\ forth.fork.transfers = back.fork.transfers
              /\ DOMAIN forth.fork.transfers = DOMAIN transfers \ {h1, h2})

\* Three wallets and two pending transfers of 1 with different senders,
\* receivers and approvers: alice to bob with carol as approver (hash 4) and
\* bob to carol with alice as approver (hash 5).  The two approvals in
\* either order leave alice 99, bob 100 and carol 101 and nothing retained,
\* while the histories record the two orders.
C24_Witness ==
    /\ DOMAIN transfers = {4, 5}
    /\ transfers[4] = [from |-> "alice", to |-> "bob", approver |-> "carol",
                       amount |-> 1, seed |-> 0]
    /\ transfers[5] = [from |-> "bob", to |-> "carol", approver |-> "alice",
                       amount |-> 1, seed |-> 0]
    /\ LET forth == Sequence(ApprovalOf(4), NextHash, ApprovalOf(5), NextHash + 1)
           back == Sequence(ApprovalOf(5), NextHash + 1, ApprovalOf(4), NextHash)
       IN /\ forth.first = Ok /\ forth.second = Ok
          /\ back.first = Ok /\ back.second = Ok
          /\ Funds(forth.fork)
                 = [key \in Keys |->
                       CASE key = "alice" -> <<INITIAL_BALANCE - 1, 0>>
                         [] key = "bob" -> <<INITIAL_BALANCE, 0>>
                         [] key = "carol" -> <<INITIAL_BALANCE + 1, 0>>]
          /\ Funds(back.fork) = Funds(forth.fork)
          /\ forth.fork.wallet_history # back.fork.wallet_history

\* C25: a Transfer of amount 0 that passes the party and existence checks
\* succeeds whatever the sender's balance, 0 included: the sender's balance
\* and retained_amount stay, the pending transfer is stored under the hash
\* of the Transfer and the sender's history_len rises by 1; and the Approve
\* of a pending transfer of amount 0 by its approver succeeds, removes it and
\* changes no balance and no retained_amount.
C25_ZeroTransferSucceeds ==
    [](/\ CanExecute =>
          \A author \in Keys, self \in TransferPayloads :
              self.amount = 0 /\ TransferPassesChecks(author, self) =>
              LET result == Transfer_execute(Fork, author, NextHash, self)
                  after == Committed(Fork, result)
                  sender == after.wallets[self.from]
              IN /\ result.status = Ok
                 /\ sender.balance = wallets[self.from].balance
                 /\ sender.retained_amount = wallets[self.from].retained_amount
                 /\ sender.history_len = wallets[self.from].history_len + 1
                 /\ NextHash \in DOMAIN after.transfers
                 /\ after.transfers[NextHash] = PendingOf(self)
                 /\ Funds(after) = Funds(Fork)
       /\ CanExecute =>
          \A author \in Keys, self \in ApprovePayloads :
              /\ self.transfer_tx_hash \in DOMAIN transfers
              /\ transfers[self.transfer_tx_hash].amount = 0
              /\ author = transfers[self.transfer_tx_hash].approver
              => LET result == Approve_execute(Fork, author, NextHash, self)
                 IN /\ result.status = Ok
                    /\ self.transfer_tx_hash \notin DOMAIN result.fork.transfers
                    /\ Funds(result.fork) = Funds(Fork))

\* alice put her whole balance on hold (hash 3), then sent a Transfer of 0
\* with balance 0 (hash 4), and its Approve has just succeeded: alice still
\* has balance 0 and retains 100, bob's balance is as it was, and the
\* zero transfer and its approval are in alice's history.
C25_Witness ==
    /\ last.kind = "Approve" /\ last.status = Ok
    /\ last.transfer_tx_hash = 4
    /\ DOMAIN transfers = {3}
    /\ transfers[3].from = "alice" /\ transfers[3].amount = INITIAL_BALANCE
    /\ wallets["alice"].balance = 0
    /\ wallets["alice"].retained_amount = INITIAL_BALANCE
    /\ wallets["alice"].history_len = 4
    /\ wallet_history["alice"] = <<1, 3, 4, 5>>
    /\ wallets["bob"].balance = INITIAL_BALANCE
    /\ wallets["bob"].history_len = 2

====
